---- MODULE Spec2Model ----
(***************************************************************************)
(* Face Tracker Avatar Demo (src/main.js): the gain-table retarget, the    *)
(* Avatar rig adapter, the startup sequence runDemo and the per-frame      *)
(* callback onVideoFrame / detectFaceLandmarks.                            *)
(*                                                                         *)
(* Strings are sequences of one-character strings, so that                 *)
(* String.prototype.includes is a real substring search.  Scores are       *)
(* counted in tenths, gains in tenths, weights therefore in hundredths:    *)
(* the weight 100 is the number 1.                                         *)
(***************************************************************************)
EXTENDS Integers, Sequences, FiniteSets, TLC

VARIABLES
    rtIn,               \* retarget: the argument `blendshapes`
    rtOut,              \* retarget: the returned coefsMap
    rtPc,               \* retarget: "call" before the call, "returned" after
    rtAfter,            \* retarget: the argument's categories as the call
                        \* leaves them, scores in hundredths
    avatar,             \* module-level handle `avatar`: NULL or "avatar"
    url,                \* Avatar.url
    pendingLoads,       \* GLTFLoader requests in flight: sequence of urls
    assets,             \* the gltf results delivered so far, by instance number
    children,           \* Object3D.children: .scene of the THREE.Scene, .gltf[g] of gltf.scene g
    gltf,               \* Avatar.gltf: None or Some(instance number)
    root,               \* Avatar.root: None or Some(object)
    morphTargetMeshes,  \* Avatar.morphTargetMeshes: sequence of objects
    influences,         \* morphTargetInfluences of every loaded mesh that has them
    unculled,           \* the meshes whose frustumCulled was set to false
    sceneMatrix,        \* matrixAutoUpdate and matrix of every gltf.scene
    pc,                 \* runDemo: the statement it is at or suspended in
    delegate,           \* runDemo: the loop variable of lines 352-366
    info,               \* textContent of the element "info"
    error,              \* textContent of the element "error"
    video,              \* module-level handle `video`
    scene,              \* module-level handle `scene`
    faceOverlay,        \* module-level handle `faceOverlay`
    faceLandmarker,     \* module-level handle `faceLandmarker`, with the detector's state
    camera,             \* streamWebcamThroughFaceLandmarker: how far the stream has come
    hasRVFC,            \* typeof video.requestVideoFrameCallback === "function"
    program,            \* which of the two programs of the file runs: "first"
                        \* (lines 1-385) or "second" (lines 386-727)
    frameLoop,          \* the frame callback that is registered: "none", "rvfc" or "raf"
    thrown,             \* the failure the top-level catch of runDemo received
    warned,             \* the failure console.warn of line 364 was called with
    accessedBy,         \* for every module-level handle, the flows that read or wrote it
    writtenBy,          \* for every module-level handle, the flows that wrote it
    console,            \* what was written to the console
    lastCall            \* the operation the last step performed

\* a handle that is null
NULL == "null"

\* an optional value that is not a handle: the empty set when null or
\* undefined, else the set of the value
None == {}

Some(x) == {x}

The(opt) == CHOOSE x \in opt : TRUE

Min(a, b) == IF a < b THEN a ELSE b

(***************************************************************************)
(* String.prototype.includes: t occurs in s as a contiguous substring.     *)
(***************************************************************************)
Includes(s, t) ==
    \E i \in 1..(Len(s) - Len(t) + 1) : SubSeq(s, i, i + Len(t) - 1) = t

\* the literals tested by retarget, src/main.js lines 249-253
StrMouthLower == <<"m", "o", "u", "t", "h">>
StrMouthUpper == <<"M", "o", "u", "t", "h">>
StrJawLower == <<"j", "a", "w">>
StrJawUpper == <<"J", "a", "w">>
StrTongueLower == <<"t", "o", "n", "g", "u", "e">>
StrTongueUpper == <<"T", "o", "n", "g", "u", "e">>
StrEyeLower == <<"e", "y", "e">>
StrEyeUpper == <<"E", "y", "e">>
StrBrowLower == <<"b", "r", "o", "w">>
StrBrowUpper == <<"B", "r", "o", "w">>

\* category names a detector can report (and some it does not)
mouthSmileLeft == <<"m", "o", "u", "t", "h", "S", "m", "i", "l", "e", "L", "e", "f", "t">>
eyeBlinkLeft == <<"e", "y", "e", "B", "l", "i", "n", "k", "L", "e", "f", "t">>
unknownCategory == <<"u", "n", "k", "n", "o", "w", "n", "C", "a", "t", "e", "g", "o", "r", "y">>
jawOpen == <<"j", "a", "w", "O", "p", "e", "n">>
tongueOut == <<"t", "o", "n", "g", "u", "e", "O", "u", "t">>
browDownLeft == <<"b", "r", "o", "w", "D", "o", "w", "n", "L", "e", "f", "t">>
MOUTHopen == <<"M", "O", "U", "T", "H", "o", "p", "e", "n">>
eyeBrowJaw == <<"e", "y", "e", "B", "r", "o", "w", "J", "a", "w">>
browOuterUpLeft ==
    <<"b", "r", "o", "w", "O", "u", "t", "e", "r", "U", "p", "L", "e", "f", "t">>
browOuterUpRight ==
    <<"b", "r", "o", "w", "O", "u", "t", "e", "r", "U", "p", "R", "i", "g", "h", "t">>
eyeBlinkRight == <<"e", "y", "e", "B", "l", "i", "n", "k", "R", "i", "g", "h", "t">>

(***************************************************************************)
(* BLENDSHAPE_GAIN, in tenths.                                             *)
(***************************************************************************)
BLENDSHAPE_GAIN ==
    [mouth |-> 22, jaw |-> 22, tongue |-> 25, eye |-> 12, brow |-> 12,
     default |-> 10]

\* the number 1 in hundredths: a score in tenths times a gain in tenths
One == 10 * 10

(***************************************************************************)
(* A JavaScript Map as the sequence of its <<key, value>> pairs in         *)
(* insertion order; set() of a present key replaces the value in place.    *)
(***************************************************************************)
MapKeys(m) == {m[i][1] : i \in 1..Len(m)}

MapHas(m, k) == k \in MapKeys(m)

MapGet(m, k) == m[CHOOSE i \in 1..Len(m) : m[i][1] = k][2]

MapSet(m, k, v) ==
    IF MapHas(m, k)
    THEN [i \in 1..Len(m) |-> IF m[i][1] = k THEN <<k, v>> ELSE m[i]]
    ELSE Append(m, <<k, v>>)

(***************************************************************************)
(* retarget, lines 248-253: the gain of a category name.                   *)
(***************************************************************************)
selectGainEyeFirst(name) ==
    IF Includes(name, StrEyeLower) \/ Includes(name, StrEyeUpper)
    THEN BLENDSHAPE_GAIN.eye
    ELSE IF Includes(name, StrMouthLower) \/ Includes(name, StrMouthUpper)
    THEN BLENDSHAPE_GAIN.mouth
    ELSE IF Includes(name, StrJawLower) \/ Includes(name, StrJawUpper)
    THEN BLENDSHAPE_GAIN.jaw
    ELSE IF Includes(name, StrTongueLower) \/ Includes(name, StrTongueUpper)
    THEN BLENDSHAPE_GAIN.tongue
    ELSE IF Includes(name, StrBrowLower) \/ Includes(name, StrBrowUpper)
    THEN BLENDSHAPE_GAIN.brow
    ELSE BLENDSHAPE_GAIN.default

selectGain(name) ==
    IF Includes(name, StrMouthLower) \/ Includes(name, StrMouthUpper)
    THEN BLENDSHAPE_GAIN.mouth
    ELSE IF Includes(name, StrJawLower) \/ Includes(name, StrJawUpper)
    THEN BLENDSHAPE_GAIN.jaw
    ELSE IF Includes(name, StrTongueLower) \/ Includes(name, StrTongueUpper)
    THEN BLENDSHAPE_GAIN.tongue
    ELSE IF Includes(name, StrEyeLower) \/ Includes(name, StrEyeUpper)
    THEN BLENDSHAPE_GAIN.eye
    ELSE IF Includes(name, StrBrowLower) \/ Includes(name, StrBrowUpper)
    THEN BLENDSHAPE_GAIN.brow
    ELSE BLENDSHAPE_GAIN.default

(***************************************************************************)
(* retarget, line 254: Math.min(1, blendshape.score * gain).               *)
(***************************************************************************)
clampedScoreNoClamp(score, gain) == score * gain

clampedScore(score, gain) == Min(One, score * gain)

(***************************************************************************)
(* retarget, lines 242-258.  `blendshapes` is the detector's               *)
(* faceBlendshapes: one record per face, the first one is used; its        *)
(* categories are Some(list).                                              *)
(***************************************************************************)
RECURSIVE retargetLoop(_, _, _)
retargetLoop(categories, i, coefsMap) ==
    IF i > Len(categories)
    THEN coefsMap
    ELSE LET blendshape == categories[i]
             name == blendshape.categoryName
             gain == selectGain(name)
             score == clampedScore(blendshape.score, gain)
         IN  retargetLoop(categories, i + 1, MapSet(coefsMap, name, score))

retarget(blendshapes) == retargetLoop(The(blendshapes[1].categories), 1, <<>>)

\* the first retarget only reads its argument: the categories after the
\* call are the categories before it (scores in hundredths)
categoriesAfterRetarget(blendshapes) ==
    LET categories == The(blendshapes[1].categories)
    IN  [i \in 1..Len(categories) |->
            [categoryName |-> categories[i].categoryName,
             score |-> categories[i].score * 10]]

(***************************************************************************)
(* The second retarget of the file, lines 588-604.  Its switch multiplies  *)
(* blendshape.score by 1.2 in place for four category names (line 598),    *)
(* and the map takes the score of the same object afterwards (line 601);   *)
(* there is no clamp.  Scores after the call are in hundredths.            *)
(***************************************************************************)
legacySwitchCases == {browOuterUpLeft, browOuterUpRight, eyeBlinkLeft, eyeBlinkRight}

legacyScoreAfter(blendshape) ==
    IF blendshape.categoryName \in legacySwitchCases
    THEN blendshape.score * 12
    ELSE blendshape.score * 10

categoriesAfterRetargetLegacy(blendshapes) ==
    LET categories == The(blendshapes[1].categories)
    IN  [i \in 1..Len(categories) |->
            [categoryName |-> categories[i].categoryName,
             score |-> legacyScoreAfter(categories[i])]]

RECURSIVE retargetLegacyLoop(_, _, _)
retargetLegacyLoop(categories, i, coefsMap) ==
    IF i > Len(categories)
    THEN coefsMap
    ELSE retargetLegacyLoop(categories, i + 1,
                            MapSet(coefsMap, categories[i].categoryName,
                                   legacyScoreAfter(categories[i])))

retargetLegacy(blendshapes) ==
    retargetLegacyLoop(The(blendshapes[1].categories), 1, <<>>)

(***************************************************************************)
(* Inputs of the retarget specification.  The detector reports every       *)
(* blendshape category once per face, so the names of a list are distinct. *)
(***************************************************************************)
MaxCategories == 2

RetargetNames ==
    {mouthSmileLeft, eyeBlinkLeft, unknownCategory, jawOpen, tongueOut,
     browDownLeft, MOUTHopen, eyeBrowJaw, browOuterUpLeft}

\* raw scores in tenths, all within [0, 1]
RetargetScores == {0, 3, 5, 9, 10}

RetargetEntries ==
    [categoryName : RetargetNames, score : RetargetScores]

DistinctNames(l) ==
    \A i, j \in 1..Len(l) : i # j => l[i].categoryName # l[j].categoryName

CategoryLists ==
    UNION {{l \in [1..n -> RetargetEntries] : DistinctNames(l)} :
           n \in 0..MaxCategories}

\* a second detected face, which retarget never looks at
SecondFace == [categories |-> Some(<<[categoryName |-> jawOpen, score |-> 10]>>)]

RetargetInputs ==
    {<<[categories |-> Some(l)]>> : l \in CategoryLists}
    \cup {<<[categories |-> Some(l)], SecondFace>> : l \in CategoryLists}

retargetVars == <<rtIn, rtOut, rtPc, rtAfter>>

avatarVars ==
    <<avatar, url, pendingLoads, assets, children, gltf, root,
      morphTargetMeshes, influences, unculled, sceneMatrix>>

appVars ==
    <<pc, delegate, info, error, video, scene, faceOverlay, faceLandmarker,
      camera, hasRVFC, program, frameLoop, thrown, warned, accessedBy, writtenBy>>

vars == <<retargetVars, avatarVars, appVars, console, lastCall>>

Handles == {"faceLandmarker", "video", "scene", "avatar", "faceOverlay"}

\* src/main.js holds two programs one after the other; a page runs one
Programs == {"first", "second"}

\* the state of the page before runDemo is called; the page has the
\* elements "video", "info" and "error"
NoApp ==
    /\ pc = "start"
    /\ delegate = "GPU"
    /\ info = ""
    /\ error = <<>>
    /\ video = NULL
    /\ scene = NULL
    /\ faceOverlay = NULL
    /\ faceLandmarker = NULL
    /\ camera = "idle"
    /\ frameLoop = "none"
    /\ thrown = None
    /\ warned = None
    /\ accessedBy = [h \in Handles |-> {}]
    /\ writtenBy = [h \in Handles |-> {}]

(***************************************************************************)
(* JavaScript runs a callback to completion: while runDemo is inside the   *)
(* synchronous block of lines 329-345, or its continuation after           *)
(* `await streamWebcamThroughFaceLandmarker()` is queued as a microtask,   *)
(* no frame callback and no loader callback runs.                          *)
(***************************************************************************)
Busy == pc = "starting3D" \/ (pc = "awaitStream" /\ camera = "started")

\* the state of an Avatar that was not constructed
NoAvatar ==
    /\ avatar = NULL
    /\ url = NULL
    /\ pendingLoads = <<>>
    /\ assets = <<>>
    /\ children = [scene |-> {}, gltf |-> <<>>]
    /\ gltf = None
    /\ root = None
    /\ morphTargetMeshes = <<>>
    /\ influences = <<>>
    /\ unculled = {}
    /\ sceneMatrix = <<>>

RetargetInit ==
    /\ rtIn \in RetargetInputs
    /\ rtOut = <<>>
    /\ rtPc = "call"
    /\ rtAfter = <<>>
    /\ NoAvatar
    /\ NoApp
    /\ hasRVFC = TRUE
    /\ program = "first"
    /\ console = {}
    /\ lastCall = [op |-> "none"]

RetargetCall ==
    /\ rtPc = "call"
    /\ rtOut' = retarget(rtIn)
    /\ rtPc' = "returned"
    /\ rtAfter' = categoriesAfterRetarget(rtIn)
    /\ lastCall' = [op |-> "retarget"]
    /\ UNCHANGED <<rtIn, avatarVars, appVars, console>>

\* a call of the second retarget (lines 588-604) with the same argument
RetargetLegacyCall ==
    /\ rtPc = "call"
    /\ rtOut' = retargetLegacy(rtIn)
    /\ rtPc' = "returnedLegacy"
    /\ rtAfter' = categoriesAfterRetargetLegacy(rtIn)
    /\ lastCall' = [op |-> "retargetLegacy"]
    /\ UNCHANGED <<rtIn, avatarVars, appVars, console>>

RetargetNext == RetargetCall \/ RetargetLegacyCall

SpecRetarget == RetargetInit /\ [][RetargetNext]_vars

\* the entries of the list passed to retarget
RtList == The(rtIn[1].categories)

RtEntries == {RtList[i] : i \in 1..Len(RtList)}

(***************************************************************************)
(* C1: after retarget returns, the map has exactly the names of the list   *)
(* as keys and holds for every entry (n, r) the weight min(1, r * g), g    *)
(* the gain selected for n; every weight lies in [0, 1]; mouthSmileLeft at *)
(* 0.9 gives 1.0, eyeBlinkLeft at 0.5 gives 0.6, unknownCategory at 0.3    *)
(* gives 0.3.                                                              *)
(***************************************************************************)
C1_RetargetWeight ==
    rtPc = "returned" =>
        /\ MapKeys(rtOut) = {e.categoryName : e \in RtEntries}
        /\ Len(rtOut) = Len(RtList)
        /\ \A e \in RtEntries :
              LET w == MapGet(rtOut, e.categoryName)
                  g == selectGain(e.categoryName)
              IN  /\ w = (IF e.score * g < One THEN e.score * g ELSE One)
                  /\ 0 <= w /\ w <= One
                  /\ (e.categoryName = mouthSmileLeft /\ e.score = 9) => w = 100
                  /\ (e.categoryName = eyeBlinkLeft /\ e.score = 5) => w = 60
                  /\ (e.categoryName = unknownCategory /\ e.score = 3) => w = 30

C1_Witness ==
    /\ rtPc = "returned"
    /\ [categoryName |-> mouthSmileLeft, score |-> 9] \in RtEntries
    /\ [categoryName |-> eyeBlinkLeft, score |-> 5] \in RtEntries
    /\ MapGet(rtOut, mouthSmileLeft) = 100
    /\ MapGet(rtOut, eyeBlinkLeft) = 60

(***************************************************************************)
(* Letter case, for the statements about case-insensitive matching.        *)
(***************************************************************************)
LowerLetters ==
    <<"a", "b", "c", "d", "e", "f", "g", "h", "i", "j", "k", "l", "m",
      "n", "o", "p", "q", "r", "s", "t", "u", "v", "w", "x", "y", "z">>

UpperLetters ==
    <<"A", "B", "C", "D", "E", "F", "G", "H", "I", "J", "K", "L", "M",
      "N", "O", "P", "Q", "R", "S", "T", "U", "V", "W", "X", "Y", "Z">>

ToLowerChar(c) ==
    IF \E i \in 1..26 : UpperLetters[i] = c
    THEN LowerLetters[CHOOSE i \in 1..26 : UpperLetters[i] = c]
    ELSE c

ToUpperChar(c) ==
    IF \E i \in 1..26 : LowerLetters[i] = c
    THEN UpperLetters[CHOOSE i \in 1..26 : LowerLetters[i] = c]
    ELSE c

ToLowerCase(s) == [i \in 1..Len(s) |-> ToLowerChar(s[i])]

Capitalized(s) == [i \in 1..Len(s) |-> IF i = 1 THEN ToUpperChar(s[i]) ELSE s[i]]

\* the ordered category list with the gain of each category
CategoryOrder ==
    << <<StrMouthLower, 22>>, <<StrJawLower, 22>>, <<StrTongueLower, 25>>,
       <<StrEyeLower, 12>>, <<StrBrowLower, 12>> >>

\* the gain of the first category of the order that Matches(name, category)
FirstMatchGain(name, Matches(_, _)) ==
    LET hits == {i \in 1..Len(CategoryOrder) : Matches(name, CategoryOrder[i][1])}
    IN  IF hits = {} THEN 10
        ELSE CategoryOrder[CHOOSE i \in hits : \A j \in hits : i <= j][2]

MatchesAnyCase(name, cat) == Includes(ToLowerCase(name), cat)

MatchesLowerOrCapitalized(name, cat) ==
    Includes(name, cat) \/ Includes(name, Capitalized(cat))

(***************************************************************************)
(* C2 as stated: the gain is decided by the first category of mouth, jaw,  *)
(* tongue, eye, brow that occurs in the name in any letter case.  Refuted  *)
(* by MOUTHopen, which gets the default gain.                              *)
(***************************************************************************)
C2_AnyCaseGain ==
    rtPc = "returned" =>
        \A e \in RtEntries :
            MapGet(rtOut, e.categoryName)
                = Min(One, e.score * FirstMatchGain(e.categoryName, MatchesAnyCase))

(***************************************************************************)
(* C2 amended: the gain is decided by the first category of mouth, jaw,    *)
(* tongue, eye, brow that occurs in the name written in lower case or with *)
(* only its first letter in upper case; no such category: gain 1.          *)
(***************************************************************************)
C2_LowerOrCapitalizedGain ==
    rtPc = "returned" =>
        \A e \in RtEntries :
            MapGet(rtOut, e.categoryName)
                = Min(One, e.score
                           * FirstMatchGain(e.categoryName, MatchesLowerOrCapitalized))

C2_Witness ==
    /\ rtPc = "returned"
    /\ [categoryName |-> eyeBrowJaw, score |-> 3] \in RtEntries
    /\ [categoryName |-> MOUTHopen, score |-> 3] \in RtEntries
    /\ MapGet(rtOut, eyeBrowJaw) = 66
    /\ MapGet(rtOut, MOUTHopen) = 30

(***************************************************************************)
(* The assets GLTFLoader can deliver.  An object of a gltf.scene is a      *)
(* record of the fields Avatar.init reads; a morphTargetDictionary is a    *)
(* map from name to (0-based) slot, None when the mesh has none;           *)
(* morphTargetSlots is the length of morphTargetInfluences, None when the  *)
(* mesh has none.  The objects are listed in traversal order.              *)
(***************************************************************************)
BoneObject ==
    [isBone |-> TRUE, isMesh |-> FALSE, morphTargetDictionary |-> None,
     morphTargetSlots |-> None]

PlainMesh ==
    [isBone |-> FALSE, isMesh |-> TRUE, morphTargetDictionary |-> None,
     morphTargetSlots |-> None]

DictionaryOnlyMesh ==
    [isBone |-> FALSE, isMesh |-> TRUE,
     morphTargetDictionary |-> Some(<< <<jawOpen, 0>> >>),
     morphTargetSlots |-> None]

JawMesh ==
    [isBone |-> FALSE, isMesh |-> TRUE,
     morphTargetDictionary |-> Some(<< <<jawOpen, 0>> >>),
     morphTargetSlots |-> Some(1)]

JawEyeMesh ==
    [isBone |-> FALSE, isMesh |-> TRUE,
     morphTargetDictionary |-> Some(<< <<jawOpen, 0>>, <<eyeBlinkLeft, 1>> >>),
     morphTargetSlots |-> Some(2)]

EyeJawMesh ==
    [isBone |-> FALSE, isMesh |-> TRUE,
     morphTargetDictionary |-> Some(<< <<eyeBlinkLeft, 0>>, <<jawOpen, 1>> >>),
     morphTargetSlots |-> Some(2)]

RaccoonUrl == "https://assets.codepen.io/9177687/raccoon_head.glb"

OtherUrl == "other.glb"

Urls == {RaccoonUrl, OtherUrl}

GltfObjects(u) ==
    IF u = RaccoonUrl
    THEN <<BoneObject, JawEyeMesh, JawMesh, PlainMesh>>
    ELSE <<EyeJawMesh, DictionaryOnlyMesh, BoneObject>>

\* the object number k of instance g, and its record
ObjectsOf(g) == {<<g, k>> : k \in 1..Len(GltfObjects(assets[g]))}

ObjectRecord(o) == GltfObjects(assets[o[1]])[o[2]]

\* JavaScript truthiness of the two morph-target fields of a mesh
HasMorphTargets(rec) ==
    rec.morphTargetDictionary # None /\ rec.morphTargetSlots # None

(***************************************************************************)
(* three.js Object3D.remove(...objects) and Object3D.add(object), on the   *)
(* children of the receiver.                                               *)
(***************************************************************************)
Object3DRemove(kids, objects) == kids \ objects

Object3DAdd(kids, object) == kids \cup {object}

(***************************************************************************)
(* Avatar.init, lines 127-138: the traversal of the objects of instance g, *)
(* from object k on.  st carries root, morphTargetMeshes and unculled.     *)
(***************************************************************************)
RECURSIVE initTraverse(_, _, _, _)
initTraverse(objs, g, k, st) ==
    IF k > Len(objs)
    THEN st
    ELSE LET object == objs[k]
             st1 == IF object.isBone /\ st.root = None
                    THEN [st EXCEPT !.root = Some(<<g, k>>)]
                    ELSE st
         IN  IF ~object.isMesh
             THEN initTraverse(objs, g, k + 1, st1)
             ELSE LET st2 == [st1 EXCEPT !.unculled = @ \cup {<<g, k>>}]
                  IN  IF ~HasMorphTargets(object)
                      THEN initTraverse(objs, g, k + 1, st2)
                      ELSE initTraverse(objs, g, k + 1,
                               [st2 EXCEPT !.meshes = Append(@, <<g, k>>)])

(***************************************************************************)
(* Avatar.updateBlendshapes, lines 143-147: one (name, value) pair on one  *)
(* mesh; then the pairs of the map in order; then every mesh.              *)
(***************************************************************************)
writeInfluenceSlotZero(infl, dict, name, value) ==
    IF ~MapHas(dict, name)
    THEN (0 :> value) @@ infl
    ELSE (MapGet(dict, name) :> value) @@ infl

writeInfluence(infl, dict, name, value) ==
    IF ~MapHas(dict, name)
    THEN infl
    ELSE (MapGet(dict, name) :> value) @@ infl

RECURSIVE updateMesh(_, _, _, _)
updateMesh(infl, dict, blendshapes, i) ==
    IF i > Len(blendshapes)
    THEN infl
    ELSE updateMesh(writeInfluence(infl, dict, blendshapes[i][1], blendshapes[i][2]),
                    dict, blendshapes, i + 1)

RECURSIVE updateBlendshapes(_, _, _, _)
updateBlendshapes(infls, meshes, blendshapes, m) ==
    IF m > Len(meshes)
    THEN infls
    ELSE LET mesh == meshes[m]
             rec == ObjectRecord(mesh)
         IN  IF ~HasMorphTargets(rec)
             THEN updateBlendshapes(infls, meshes, blendshapes, m + 1)
             ELSE updateBlendshapes(
                      [infls EXCEPT ![mesh] =
                          updateMesh(@, The(rec.morphTargetDictionary), blendshapes, 1)],
                      meshes, blendshapes, m + 1)

(***************************************************************************)
(* Avatar.applyMatrix, lines 151-157.  A matrix is the pose it was built   *)
(* from and the uniform scale applied to it; options are a record that may *)
(* have a scale field.                                                     *)
(***************************************************************************)
IdentityMatrix == [pose |-> "identity", scale |-> 1]

OptionScale(options) == IF "scale" \in DOMAIN options THEN options.scale ELSE 1

applyMatrixUnscaled(sm, g, matrix, options) ==
    IF g = None
    THEN sm
    ELSE [sm EXCEPT ![The(g)] = [matrixAutoUpdate |-> FALSE, matrix |-> matrix]]

applyMatrix(sm, g, matrix, options) ==
    IF g = None
    THEN sm
    ELSE [sm EXCEPT ![The(g)] =
             [matrixAutoUpdate |-> FALSE,
              matrix |-> [matrix EXCEPT !.scale = @ * OptionScale(options)]]]

(***************************************************************************)
(* Avatar.loadModel, lines 105-125: the request, and the three callbacks.  *)
(***************************************************************************)
MaxLoads == 2

AvatarLoadModel(u) ==
    /\ avatar # NULL
    /\ Len(assets) + Len(pendingLoads) < MaxLoads
    /\ url' = u
    /\ pendingLoads' = Append(pendingLoads, u)
    /\ lastCall' = [op |-> "loadModel"]
    /\ UNCHANGED <<retargetVars, appVars, avatar, assets, children, gltf, root,
                   morphTargetMeshes, influences, unculled, sceneMatrix, console>>

RemoveAt(q, i) == SubSeq(q, 1, i - 1) \o SubSeq(q, i + 1, Len(q))

\* lines 109-117, the onLoad callback of request i
AvatarLoadComplete(i) ==
    /\ ~Busy
    /\ i \in 1..Len(pendingLoads)
    /\ LET u == pendingLoads[i]
           g == Len(assets) + 1
           objs == GltfObjects(u)
           detached == IF gltf # None
                       THEN [children EXCEPT !.gltf[The(gltf)] = Object3DRemove(@, {})]
                       ELSE children
           meshes0 == IF gltf # None THEN <<>> ELSE morphTargetMeshes
           st == initTraverse(objs, g, 1,
                     [root |-> root, meshes |-> meshes0, unculled |-> unculled])
       IN  /\ pendingLoads' = RemoveAt(pendingLoads, i)
           /\ assets' = Append(assets, u)
           /\ gltf' = Some(g)
           /\ children' =
                 [scene |-> Object3DAdd(detached.scene, g),
                  gltf |-> Append(detached.gltf, {<<g, k>> : k \in 1..Len(objs)})]
           /\ root' = st.root
           /\ morphTargetMeshes' = st.meshes
           /\ unculled' = st.unculled
           /\ influences' =
                 [o \in DOMAIN influences
                        \cup {<<g, k>> : k \in {j \in 1..Len(objs) :
                                                objs[j].morphTargetSlots # None}} |->
                     IF o \in DOMAIN influences THEN influences[o]
                     ELSE [slot \in 0..(The(objs[o[2]].morphTargetSlots) - 1) |-> 0]]
           /\ sceneMatrix' =
                 Append(sceneMatrix,
                        [matrixAutoUpdate |-> TRUE, matrix |-> IdentityMatrix])
           /\ lastCall' = [op |-> "onLoad", previous |-> gltf]
    /\ UNCHANGED <<retargetVars, appVars, avatar, url, console>>

\* lines 118-122, the onProgress callback of request i
AvatarLoadProgress(i) ==
    /\ ~Busy
    /\ i \in 1..Len(pendingLoads)
    /\ console' = console \cup {"log: Loading model..."}
    /\ lastCall' = [op |-> "onProgress"]
    /\ UNCHANGED <<retargetVars, appVars, avatarVars>>

\* line 123, the onError callback of request i
AvatarLoadError(i) ==
    /\ ~Busy
    /\ i \in 1..Len(pendingLoads)
    /\ pendingLoads' = RemoveAt(pendingLoads, i)
    /\ console' = console \cup {"error: model load"}
    /\ lastCall' = [op |-> "onError"]
    /\ UNCHANGED <<retargetVars, appVars, avatar, url, assets, children, gltf, root,
                   morphTargetMeshes, influences, unculled, sceneMatrix>>

(***************************************************************************)
(* The Avatar on its own: constructed on a scene (lines 95-103), then      *)
(* driven through its methods by a caller.                                 *)
(***************************************************************************)
MaxMapSize == 2

WeightNames == {jawOpen, eyeBlinkLeft, unknownCategory}

WeightValues == {40, 70}

WeightMaps ==
    UNION {{m \in [1..n -> WeightNames \X WeightValues] :
               \A i, j \in 1..n : i # j => m[i][1] # m[j][1]} :
           n \in 0..MaxMapSize}

\* the maps the caller of the Avatar specification passes
AvatarMaps ==
    {<<>>, << <<jawOpen, 70>> >>, << <<jawOpen, 70>>, <<eyeBlinkLeft, 40>> >>}

Poses == {"poseA"}

AvatarInit ==
    /\ rtIn = <<>>
    /\ rtOut = <<>>
    /\ rtPc = "idle"
    /\ rtAfter = <<>>
    /\ avatar = "avatar"
    /\ url = RaccoonUrl
    /\ pendingLoads = <<RaccoonUrl>>
    /\ assets = <<>>
    /\ children = [scene |-> {}, gltf |-> <<>>]
    /\ gltf = None
    /\ root = None
    /\ morphTargetMeshes = <<>>
    /\ influences = <<>>
    /\ unculled = {}
    /\ sceneMatrix = <<>>
    /\ NoApp
    /\ hasRVFC = TRUE
    /\ program = "first"
    /\ console = {}
    /\ lastCall = [op |-> "new Avatar"]

AvatarUpdateBlendshapes(m) ==
    /\ avatar # NULL
    /\ influences' = updateBlendshapes(influences, morphTargetMeshes, m, 1)
    /\ lastCall' = [op |-> "updateBlendshapes", blendshapes |-> m]
    /\ UNCHANGED <<retargetVars, appVars, avatar, url, pendingLoads, assets, children,
                   gltf, root, morphTargetMeshes, unculled, sceneMatrix, console>>

AvatarApplyMatrix(pose, options) ==
    /\ avatar # NULL
    /\ sceneMatrix' = applyMatrix(sceneMatrix, gltf,
                                  [pose |-> pose, scale |-> 1], options)
    /\ lastCall' = [op |-> "applyMatrix", pose |-> pose, options |-> options]
    /\ UNCHANGED <<retargetVars, appVars, avatar, url, pendingLoads, assets, children,
                   gltf, root, morphTargetMeshes, influences, unculled, console>>

AvatarNext ==
    \/ \E u \in Urls : AvatarLoadModel(u)
    \/ \E i \in 1..MaxLoads : AvatarLoadComplete(i)
    \/ \E i \in 1..MaxLoads : AvatarLoadProgress(i)
    \/ \E i \in 1..MaxLoads : AvatarLoadError(i)
    \/ \E m \in AvatarMaps : AvatarUpdateBlendshapes(m)
    \/ \E pose \in Poses, options \in {<<>>, [scale |-> 40]} :
          AvatarApplyMatrix(pose, options)

SpecAvatar == AvatarInit /\ [][AvatarNext]_vars

(***************************************************************************)
(* C7 as stated: when a load completes while a previous asset exists, the  *)
(* previous asset's scene is no longer a child of the scene, and           *)
(* morphTargetMeshes is exactly the meshes of the new asset that have both *)
(* a morphTargetDictionary and morphTargetInfluences.                      *)
(***************************************************************************)
MorphMeshesOf(g) ==
    {o \in ObjectsOf(g) : ObjectRecord(o).isMesh /\ HasMorphTargets(ObjectRecord(o))}

C7_PreviousDetached ==
    (lastCall.op = "onLoad" /\ lastCall.previous # None) =>
        /\ The(lastCall.previous) \notin children.scene
        /\ {morphTargetMeshes[i] : i \in 1..Len(morphTargetMeshes)}
              = MorphMeshesOf(The(gltf))
        /\ Len(morphTargetMeshes) = Cardinality(MorphMeshesOf(The(gltf)))

(***************************************************************************)
(* The rig adapter on its own: an Avatar whose asset has loaded, the       *)
(* influences at any weights, and a caller that applies weight maps.       *)
(***************************************************************************)
InfluenceValues == {0, 40, 70}

RigInit ==
    /\ rtIn = <<>>
    /\ rtOut = <<>>
    /\ rtPc = "idle"
    /\ rtAfter = <<>>
    /\ avatar = "avatar"
    /\ pendingLoads = <<>>
    /\ \E u \in Urls :
          LET objs == GltfObjects(u)
              st == initTraverse(objs, 1, 1,
                        [root |-> None, meshes |-> <<>>, unculled |-> {}])
              slotted == {<<1, k>> : k \in {j \in 1..Len(objs) :
                                              objs[j].morphTargetSlots # None}}
          IN  /\ url = u
              /\ assets = <<u>>
              /\ children = [scene |-> {1},
                             gltf |-> <<{<<1, k>> : k \in 1..Len(objs)}>>]
              /\ gltf = Some(1)
              /\ root = st.root
              /\ morphTargetMeshes = st.meshes
              /\ unculled = st.unculled
              /\ influences \in
                    {f \in [slotted -> UNION {[0..(n - 1) -> InfluenceValues] : n \in 1..2}] :
                        \A o \in slotted :
                            DOMAIN f[o] = 0..(The(objs[o[2]].morphTargetSlots) - 1)}
    /\ sceneMatrix = <<[matrixAutoUpdate |-> TRUE, matrix |-> IdentityMatrix]>>
    /\ NoApp
    /\ hasRVFC = TRUE
    /\ program = "first"
    /\ console = {}
    /\ lastCall = [op |-> "onLoad", previous |-> None]

RigNext == \E m \in WeightMaps : AvatarUpdateBlendshapes(m)

SpecRig == RigInit /\ [][RigNext]_vars

\* the slot of mesh o that the name of pair i of map m is mapped to, if any
MappedPairs(o, m, slot) ==
    {i \in 1..Len(m) :
        LET dict == The(ObjectRecord(o).morphTargetDictionary)
        IN  MapHas(dict, m[i][1]) /\ MapGet(dict, m[i][1]) = slot}

InMeshList(o) == \E i \in 1..Len(morphTargetMeshes) : morphTargetMeshes[i] = o

(***************************************************************************)
(* C3: a call of updateBlendshapes with map m sets, in every mesh of the   *)
(* list, every slot mapped by a name present in both m and the mesh's      *)
(* dictionary to the weight m gives that name, and leaves every other slot *)
(* of every mesh as it was (no slot is added or removed).                  *)
(***************************************************************************)
C3_UpdateWritesMappedSlotsOnly ==
    [][lastCall'.op = "updateBlendshapes" =>
          LET m == lastCall'.blendshapes
          IN  /\ DOMAIN influences' = DOMAIN influences
              /\ \A o \in DOMAIN influences :
                    /\ DOMAIN influences'[o] = DOMAIN influences[o]
                    /\ \A slot \in DOMAIN influences[o] :
                          IF InMeshList(o) /\ MappedPairs(o, m, slot) # {}
                          THEN \A i \in MappedPairs(o, m, slot) :
                                  influences'[o][slot] = m[i][2]
                          ELSE influences'[o][slot] = influences[o][slot]]_vars

\* the claim's example: a mesh indexing only jawOpen, given jawOpen 0.7 and
\* eyeBlinkLeft 0.4, has its jawOpen slot at 0.7 and nothing else
C3_Witness ==
    /\ lastCall.op = "updateBlendshapes"
    /\ lastCall.blendshapes = << <<jawOpen, 70>>, <<eyeBlinkLeft, 40>> >>
    /\ assets = <<RaccoonUrl>>
    /\ ObjectRecord(<<1, 3>>) = JawMesh
    /\ influences[<<1, 3>>] = (0 :> 70)
    /\ influences[<<1, 2>>] = (0 :> 70) @@ (1 :> 40)

(***************************************************************************)
(* The texts of runDemo, lines 372-380: the substrings the message of a    *)
(* failure is searched for, and the messages showError is called with.     *)
(***************************************************************************)
StrPermission ==
    <<"P", "e", "r", "m", "i", "s", "s", "i", "o", "n">>

StrNotAllowed ==
    <<"N", "o", "t", "A", "l", "l", "o", "w", "e", "d">>

StrDenied ==
    <<"d", "e", "n", "i", "e", "d">>

StrNotFound ==
    <<"N", "o", "t", "F", "o", "u", "n", "d">>

StrDevicesNotFound ==
    <<"D", "e", "v", "i", "c", "e", "s", "N", "o", "t", "F", "o", "u",
      "n", "d">>

StrFetch ==
    <<"f", "e", "t", "c", "h">>

StrNetwork ==
    <<"n", "e", "t", "w", "o", "r", "k">>

StrLoad ==
    <<"L", "o", "a", "d">>

\* String(e) of an Error with an empty message is its name alone
StrErrorName ==
    <<"E", "r", "r", "o", "r">>

StrErrorPrefix ==
    <<"E", "r", "r", "o", "r", ":", " ">>

TextCameraDenied ==
    <<"C", "a", "m", "e", "r", "a", " ", "a", "c", "c", "e", "s", "s",
      " ", "d", "e", "n", "i", "e", "d", ".", " ", "P", "l", "e", "a",
      "s", "e", " ", "a", "l", "l", "o", "w", " ", "c", "a", "m", "e",
      "r", "a", " ", "a", "n", "d", " ", "r", "e", "f", "r", "e", "s",
      "h", ".">>

TextNoCamera ==
    <<"N", "o", " ", "c", "a", "m", "e", "r", "a", " ", "f", "o", "u",
      "n", "d", ".">>

TextNetworkError ==
    <<"N", "e", "t", "w", "o", "r", "k", " ", "e", "r", "r", "o", "r",
      " ", "l", "o", "a", "d", "i", "n", "g", " ", "m", "o", "d", "e",
      "l", ".", " ", "C", "h", "e", "c", "k", " ", "c", "o", "n", "n",
      "e", "c", "t", "i", "o", "n", " ", "a", "n", "d", " ", "t", "r",
      "y", " ", "a", "g", "a", "i", "n", ".">>

TextNoVideoElement ==
    <<"V", "i", "d", "e", "o", " ", "e", "l", "e", "m", "e", "n", "t",
      " ", "n", "o", "t", " ", "f", "o", "u", "n", "d", ".">>

\* the messages of the failures the startup sequence can meet
MsgPermissionDenied ==
    <<"P", "e", "r", "m", "i", "s", "s", "i", "o", "n", " ", "d", "e",
      "n", "i", "e", "d">>

MsgNotFoundError ==
    <<"N", "o", "t", "F", "o", "u", "n", "d", "E", "r", "r", "o", "r">>

MsgFailedToFetch ==
    <<"F", "a", "i", "l", "e", "d", " ", "t", "o", " ", "f", "e", "t",
      "c", "h">>

MsgBoom ==
    <<"b", "o", "o", "m">>

MsgDeniedNotFound ==
    <<"d", "e", "n", "i", "e", "d", " ", "N", "o", "t", "F", "o", "u",
      "n", "d">>

MsgNotFoundFetch ==
    <<"N", "o", "t", "F", "o", "u", "n", "d", " ", "f", "e", "t", "c",
      "h">>

MsgNotAllowed ==
    <<"N", "o", "t", "A", "l", "l", "o", "w", "e", "d">>

(***************************************************************************)
(* A failure: an Error object with its message and what String(e) gives    *)
(* (the name alone when the message is empty), or a thrown value without a *)
(* message (message empty).                                                *)
(***************************************************************************)
ErrorObject(message) ==
    [message |-> message,
     string |-> IF message = <<>> THEN StrErrorName ELSE StrErrorPrefix \o message]

ThrownString(str) == [message |-> <<>>, string |-> str]

\* the failures of getUserMedia and play, of the BasicScene constructor, of
\* the fileset and model download, and of setOptions
CameraFailures ==
    {ErrorObject(MsgPermissionDenied), ErrorObject(MsgNotFoundError),
     ErrorObject(MsgDeniedNotFound), ThrownString(MsgNotAllowed)}

\* one of them an Error with an empty message
SceneFailures == {ErrorObject(MsgBoom), ErrorObject(<<>>)}

DownloadFailures ==
    {ErrorObject(MsgFailedToFetch), ErrorObject(MsgNotFoundFetch)}

DetectorFailures == {ErrorObject(MsgBoom), ErrorObject(MsgFailedToFetch)}

Failures ==
    CameraFailures \cup SceneFailures \cup DownloadFailures \cup DetectorFailures

\* line 371: e.message || String(e)
errorMessage(e) == IF e.message # <<>> THEN e.message ELSE e.string

(***************************************************************************)
(* runDemo, lines 372-380: the text showError is called with.              *)
(***************************************************************************)
classifyErrorDeviceFirst(msg) ==
    IF Includes(msg, StrNotFound) \/ Includes(msg, StrDevicesNotFound)
    THEN TextNoCamera
    ELSE IF Includes(msg, StrPermission) \/ Includes(msg, StrNotAllowed)
            \/ Includes(msg, StrDenied)
    THEN TextCameraDenied
    ELSE IF Includes(msg, StrFetch) \/ Includes(msg, StrNetwork)
            \/ Includes(msg, StrLoad)
    THEN TextNetworkError
    ELSE StrErrorPrefix \o msg

classifyError(msg) ==
    IF Includes(msg, StrPermission) \/ Includes(msg, StrNotAllowed)
       \/ Includes(msg, StrDenied)
    THEN TextCameraDenied
    ELSE IF Includes(msg, StrNotFound) \/ Includes(msg, StrDevicesNotFound)
    THEN TextNoCamera
    ELSE IF Includes(msg, StrFetch) \/ Includes(msg, StrNetwork)
            \/ Includes(msg, StrLoad)
    THEN TextNetworkError
    ELSE StrErrorPrefix \o msg

\* the texts runDemo writes to the element "info" (the ellipsis character
\* of the source is written as three dots)
InfoRequesting == "Requesting camera... Allow access when prompted."

InfoStarting3D == "Starting 3D view..."

InfoLoading == "Loading face model... (may take a moment)"

InfoReady == "Ready. Move your face to drive the avatar."

(***************************************************************************)
(* The record of which flow touches which module-level handle.             *)
(***************************************************************************)
Touch(flow, reads, writes) ==
    /\ accessedBy' = [h \in Handles |->
                         IF h \in reads \cup writes
                         THEN accessedBy[h] \cup {flow} ELSE accessedBy[h]]
    /\ writtenBy' = [h \in Handles |->
                        IF h \in writes
                        THEN writtenBy[h] \cup {flow} ELSE writtenBy[h]]

(***************************************************************************)
(* The top-level catch of runDemo, lines 370-381, with showError, lines    *)
(* 309-318.                                                                *)
(***************************************************************************)
TopLevelCatch(e) ==
    /\ thrown' = Some(e)
    /\ error' = classifyError(errorMessage(e))
    /\ info' = ""
    /\ console' = console \cup {"error: showError"}
    /\ pc' = "failed"

(***************************************************************************)
(* runDemo, lines 320-327, with streamWebcamThroughFaceLandmarker, lines   *)
(* 267-307, up to the call of getUserMedia.                                *)
(***************************************************************************)
RunDemoStart ==
    /\ pc = "start"
    /\ error' = <<>>
    /\ info' = InfoRequesting
    /\ video' = "video"
    /\ camera' = "requested"
    /\ pc' = "awaitStream"
    /\ Touch("startup", {}, {"video"})
    /\ lastCall' = [op |-> "runDemo"]
    /\ UNCHANGED <<retargetVars, avatarVars, delegate, scene, faceOverlay,
                   faceLandmarker, hasRVFC, program, frameLoop, thrown, warned, console>>

\* lines 299-301 with 271-273: getUserMedia resolved
GetUserMediaResolved ==
    /\ pc = "awaitStream" /\ camera = "requested"
    /\ camera' = "acquired"
    /\ Touch("startup", {"video"}, {})
    /\ lastCall' = [op |-> "onAcquiredUserMedia"]
    /\ UNCHANGED <<retargetVars, avatarVars, pc, delegate, info, error, video,
                   scene, faceOverlay, faceLandmarker, hasRVFC, program, frameLoop,
                   thrown, warned, console>>

\* lines 302-305: getUserMedia rejected; the rejection reaches line 370
GetUserMediaRejected(e) ==
    /\ pc = "awaitStream" /\ camera = "requested"
    /\ camera' = "rejected"
    /\ thrown' = Some(e)
    /\ error' = classifyError(errorMessage(e))
    /\ info' = ""
    /\ console' = console \cup {"error: Failed to acquire camera feed", "error: showError"}
    /\ pc' = "failed"
    /\ lastCall' = [op |-> "getUserMedia rejected"]
    /\ UNCHANGED <<retargetVars, avatarVars, delegate, video, scene, faceOverlay,
                   faceLandmarker, hasRVFC, program, frameLoop, warned, accessedBy,
                   writtenBy>>

\* lines 273-274: loadedmetadata fires, video.play() is called
LoadedMetadata ==
    /\ pc = "awaitStream" /\ camera = "acquired"
    /\ camera' = "playing"
    /\ Touch("startup", {"video"}, {})
    /\ lastCall' = [op |-> "onloadedmetadata"]
    /\ UNCHANGED <<retargetVars, avatarVars, pc, delegate, info, error, video,
                   scene, faceOverlay, faceLandmarker, hasRVFC, program, frameLoop,
                   thrown, warned, console>>

\* lines 274-285: play() resolved, the frame loop is registered
PlayResolved ==
    /\ pc = "awaitStream" /\ camera = "playing"
    /\ camera' = "started"
    /\ frameLoop' = IF hasRVFC THEN "rvfc" ELSE "raf"
    /\ Touch("startup", {"video"}, {})
    /\ lastCall' = [op |-> "play resolved"]
    /\ UNCHANGED <<retargetVars, avatarVars, pc, delegate, info, error, video,
                   scene, faceOverlay, faceLandmarker, hasRVFC, program, thrown, warned,
                   console>>

\* line 286: play() rejected; the rejection reaches line 370
PlayRejected(e) ==
    /\ pc = "awaitStream" /\ camera = "playing"
    /\ camera' = "rejected"
    /\ TopLevelCatch(e)
    /\ lastCall' = [op |-> "play rejected"]
    /\ UNCHANGED <<retargetVars, avatarVars, delegate, video, scene, faceOverlay,
                   faceLandmarker, hasRVFC, program, frameLoop, warned, accessedBy,
                   writtenBy>>

(***************************************************************************)
(* runDemo, lines 329-342, after the stream promise resolved: the scene    *)
(* and the Avatar (constructor, lines 95-103) are created.                 *)
(***************************************************************************)
RunDemoStart3D ==
    /\ pc = "awaitStream" /\ camera = "started"
    /\ lastCall' = [op |-> "runDemo: 3D view"]
    /\ IF video = NULL
       THEN /\ Touch("startup", {"video"}, {})
            /\ error' = TextNoVideoElement
            /\ info' = ""
            /\ console' = console \cup {"error: showError"}
            /\ pc' = "failed"
            /\ UNCHANGED <<avatarVars, scene, faceOverlay>>
       ELSE /\ Touch("startup", {"video", "scene"},
                     IF program = "first"
                     THEN {"scene", "avatar", "faceOverlay"}
                     ELSE {"scene", "avatar"})
            /\ info' = InfoStarting3D
            /\ scene' = "scene"
            /\ avatar' = "avatar"
            /\ url' = RaccoonUrl
            /\ pendingLoads' = Append(pendingLoads, RaccoonUrl)
            /\ faceOverlay' = NULL
            /\ pc' = "starting3D"
            /\ UNCHANGED <<error, console, assets, children, gltf, root,
                           morphTargetMeshes, influences, unculled, sceneMatrix>>
    /\ UNCHANGED <<retargetVars, delegate, video, faceLandmarker, camera, hasRVFC, program,
                   frameLoop, thrown, warned>>

\* line 335: the BasicScene constructor throws (no WebGL context)
BasicSceneThrows(e) ==
    /\ pc = "awaitStream" /\ camera = "started"
    /\ video # NULL
    /\ TopLevelCatch(e)
    /\ Touch("startup", {"video"}, {})
    /\ lastCall' = [op |-> "new BasicScene threw"]
    /\ UNCHANGED <<retargetVars, avatarVars, delegate, video, scene, faceOverlay,
                   faceLandmarker, camera, hasRVFC, program, frameLoop, warned>>

\* lines 344-347: FilesetResolver.forVisionTasks is called
RunDemoLoadFaceModelRequesting ==
    /\ pc = "starting3D"
    /\ info' = InfoRequesting
    /\ pc' = "awaitVision"
    /\ lastCall' = [op |-> "runDemo: face model"]
    /\ UNCHANGED <<retargetVars, avatarVars, delegate, error, video, scene,
                   faceOverlay, faceLandmarker, camera, hasRVFC, program, frameLoop,
                   thrown, warned, accessedBy, writtenBy, console>>

RunDemoLoadFaceModel ==
    /\ pc = "starting3D"
    /\ info' = InfoLoading
    /\ pc' = "awaitVision"
    /\ lastCall' = [op |-> "runDemo: face model"]
    /\ UNCHANGED <<retargetVars, avatarVars, delegate, error, video, scene,
                   faceOverlay, faceLandmarker, camera, hasRVFC, program, frameLoop,
                   thrown, warned, accessedBy, writtenBy, console>>

\* lines 345-354: the fileset resolved, the GPU iteration starts
VisionResolved ==
    /\ pc = "awaitVision"
    /\ delegate' = "GPU"
    /\ pc' = "awaitCreate"
    /\ lastCall' = [op |-> "forVisionTasks resolved"]
    /\ UNCHANGED <<retargetVars, avatarVars, info, error, video, scene,
                   faceOverlay, faceLandmarker, camera, hasRVFC, program, frameLoop,
                   thrown, warned, accessedBy, writtenBy, console>>

VisionRejected(e) ==
    /\ pc = "awaitVision"
    /\ TopLevelCatch(e)
    /\ lastCall' = [op |-> "forVisionTasks rejected"]
    /\ UNCHANGED <<retargetVars, avatarVars, delegate, video, scene, faceOverlay,
                   faceLandmarker, camera, hasRVFC, program, frameLoop, warned,
                   accessedBy, writtenBy>>

\* lines 354-360: createFromModelPath resolved, the detector is assigned
\* and setOptions is called on it
CreateResolved ==
    /\ pc = "awaitCreate"
    /\ faceLandmarker' = "settingOptions"
    /\ pc' = "awaitSetOptions"
    /\ Touch("startup", {"faceLandmarker"}, {"faceLandmarker"})
    /\ lastCall' = [op |-> "createFromModelPath resolved"]
    /\ UNCHANGED <<retargetVars, avatarVars, delegate, info, error, video, scene,
                   faceOverlay, camera, hasRVFC, program, frameLoop, thrown, warned,
                   console>>

(***************************************************************************)
(* Lines 362-365: the catch of one iteration.  "throw" hands the failure   *)
(* to the top-level catch, "retry" goes on with the next delegate.         *)
(***************************************************************************)
iterationCatchRethrowGPU(d) == IF d = "GPU" THEN "throw" ELSE "retry"

iterationCatch(d) == IF d = "CPU" THEN "throw" ELSE "retry"

IterationFailed(e) ==
    IF iterationCatch(delegate) = "throw"
    THEN /\ TopLevelCatch(e)
         /\ UNCHANGED <<delegate, warned>>
    ELSE /\ warned' = Some(e)
         /\ console' = console \cup {"warn: GPU failed, trying CPU"}
         /\ delegate' = "CPU"
         /\ pc' = "awaitCreate"
         /\ UNCHANGED <<info, error, thrown>>

CreateRejected(e) ==
    /\ pc = "awaitCreate"
    /\ IterationFailed(e)
    /\ lastCall' = [op |-> "createFromModelPath rejected", delegate |-> delegate,
                    e |-> e]
    /\ UNCHANGED <<retargetVars, avatarVars, video, scene, faceOverlay,
                   faceLandmarker, camera, hasRVFC, program, frameLoop, accessedBy,
                   writtenBy>>

\* lines 355-369: setOptions resolved, the loop is left
SetOptionsResolved ==
    /\ pc = "awaitSetOptions"
    /\ faceLandmarker' = "ready"
    /\ info' = InfoReady
    /\ console' = console \cup {"log: Finished loading MediaPipe model."}
    /\ pc' = "done"
    /\ lastCall' = [op |-> "setOptions resolved"]
    /\ UNCHANGED <<retargetVars, avatarVars, delegate, error, video, scene,
                   faceOverlay, camera, hasRVFC, program, frameLoop, thrown, warned,
                   accessedBy, writtenBy>>

SetOptionsRejected(e) ==
    /\ pc = "awaitSetOptions"
    /\ faceLandmarker' = "optionsFailed"
    /\ IterationFailed(e)
    /\ lastCall' = [op |-> "setOptions rejected", delegate |-> delegate, e |-> e]
    /\ UNCHANGED <<retargetVars, avatarVars, video, scene, faceOverlay, camera,
                   hasRVFC, program, frameLoop, accessedBy, writtenBy>>

(***************************************************************************)
(* What faceLandmarker.detectForVideo can hand back for one frame.  The    *)
(* landmarks are None when nothing is returned; each of the two fields is  *)
(* None when absent; the categories of a face are None when absent.        *)
(***************************************************************************)
FrameLists ==
    {<<>>,
     <<[categoryName |-> jawOpen, score |-> 3]>>,
     <<[categoryName |-> jawOpen, score |-> 5],
       [categoryName |-> eyeBlinkLeft, score |-> 5]>>}

FrameFaces ==
    {[categories |-> None]} \cup {[categories |-> Some(l)] : l \in FrameLists}

MatrixFields == {None, Some(<<>>), Some(<<[data |-> "poseA"]>>)}

BlendshapeFields == {None, Some(<<>>)} \cup {Some(<<f>>) : f \in FrameFaces}

LandmarkResults ==
    {None} \cup
    {Some([facialTransformationMatrixes |-> m, faceBlendshapes |-> b]) :
        m \in MatrixFields, b \in BlendshapeFields}

\* detectForVideo returns landmarks, or throws.  A detector whose
\* setOptions has not completed is outside the library's contract for
\* detectForVideo: it may throw or return whatever it computes.
DetectOutcomes(landmarker) ==
    {[throws |-> FALSE, landmarks |-> r] : r \in LandmarkResults}
    \cup (IF landmarker = "ready" THEN {}
          ELSE {[throws |-> TRUE, landmarks |-> None]})

(***************************************************************************)
(* detectFaceLandmarks, lines 224-227: the influences after the blendshape *)
(* part of a frame, for the faceBlendshapes field bs.                      *)
(***************************************************************************)
frameBlendshapesResetWhenEmpty(infls, meshes, bs) ==
    IF bs # None /\ Len(The(bs)) > 0
    THEN updateBlendshapes(infls, meshes, retarget(The(bs)), 1)
    ELSE [o \in DOMAIN infls |-> [slot \in DOMAIN infls[o] |-> 0]]

frameBlendshapes(infls, meshes, bs) ==
    IF bs # None /\ Len(The(bs)) > 0
    THEN updateBlendshapes(infls, meshes, retarget(The(bs)), 1)
    ELSE infls

(***************************************************************************)
(* detectFaceLandmarks, lines 214-230, for one outcome of detectForVideo:  *)
(* whether it threw, the matrices and influences it leaves, the handles it *)
(* read, and whether line 216 was reached (detectForVideo was called).     *)
(***************************************************************************)
detectWritesLandmarker == {"faceLandmarker"}

\* the module-level handles detectFaceLandmarks assigns: none
detectWrites == {}

detectFaceLandmarks(out) ==
    LET same == [threw |-> FALSE, sceneMatrix |-> sceneMatrix,
                 influences |-> influences, reads |-> {"faceLandmarker"},
                 detectForVideo |-> FALSE]
    IN  IF faceLandmarker = NULL
        THEN same
        ELSE IF video = NULL
        THEN [same EXCEPT !.reads = {"faceLandmarker", "video"}]
        ELSE LET called == [same EXCEPT !.reads = {"faceLandmarker", "video"},
                                        !.detectForVideo = TRUE]
             IN  IF out.throws \/ out.landmarks = None
                 THEN [called EXCEPT !.threw = TRUE]
                 ELSE LET landmarks == The(out.landmarks)
                          tm == landmarks.facialTransformationMatrixes
                      IN  IF ~(tm # None /\ Len(The(tm)) > 0)
                          THEN called
                          ELSE LET matrix == [pose |-> The(tm)[1].data, scale |-> 1]
                                   posed == [called EXCEPT
                                               !.reads = @ \cup {"faceOverlay", "avatar"}]
                               IN  IF avatar = NULL
                                   THEN posed
                                   ELSE LET sm == applyMatrix(sceneMatrix, gltf, matrix,
                                                              [scale |-> 40])
                                            bs == landmarks.faceBlendshapes
                                        IN  IF bs # None /\ Len(The(bs)) > 0
                                               /\ The(bs)[1].categories = None
                                            THEN [posed EXCEPT !.threw = TRUE,
                                                               !.sceneMatrix = sm]
                                            ELSE [posed EXCEPT
                                                    !.sceneMatrix = sm,
                                                    !.influences =
                                                        frameBlendshapes(influences,
                                                            morphTargetMeshes, bs)]

(***************************************************************************)
(* onVideoFrame, lines 260-265.  An exception of detectFaceLandmarks       *)
(* leaves the callback before line 262.                                    *)
(***************************************************************************)
OnVideoFrame(out) ==
    /\ program = "first"
    /\ frameLoop = "rvfc"
    /\ ~Busy
    /\ LET d == detectFaceLandmarks(out)
       IN  /\ sceneMatrix' = d.sceneMatrix
           /\ influences' = d.influences
           /\ IF d.threw
              THEN /\ frameLoop' = "none"
                   /\ console' = console \cup {"error: uncaught exception in frame callback"}
                   /\ Touch("frame", d.reads, detectWrites)
              ELSE /\ frameLoop' = IF video # NULL /\ hasRVFC THEN "rvfc" ELSE "none"
                   /\ console' = console
                   /\ Touch("frame", d.reads \cup {"video"}, detectWrites)
           /\ lastCall' = [op |-> "onVideoFrame", out |-> out, threw |-> d.threw,
                           detectForVideo |-> d.detectForVideo,
                           detector |-> faceLandmarker]
    /\ UNCHANGED <<retargetVars, avatar, url, pendingLoads, assets, children, gltf,
                   root, morphTargetMeshes, unculled, pc, delegate, info, error,
                   video, scene, faceOverlay, faceLandmarker, camera, hasRVFC, program,
                   thrown, warned>>

(***************************************************************************)
(* rafLoop, lines 279-282, the loop of a browser without                   *)
(* requestVideoFrameCallback; ready is video.readyState >= 2.              *)
(***************************************************************************)
RafLoop(ready, out) ==
    /\ program = "first"
    /\ frameLoop = "raf"
    /\ ~Busy
    /\ LET d == IF ready THEN detectFaceLandmarks(out)
                ELSE [threw |-> FALSE, sceneMatrix |-> sceneMatrix,
                      influences |-> influences, reads |-> {},
                      detectForVideo |-> FALSE]
       IN  /\ sceneMatrix' = d.sceneMatrix
           /\ influences' = d.influences
           /\ IF d.threw
              THEN /\ frameLoop' = "none"
                   /\ console' = console \cup {"error: uncaught exception in frame callback"}
              ELSE /\ frameLoop' = "raf"
                   /\ console' = console
           /\ Touch("frame", d.reads \cup {"video"}, detectWrites)
           /\ lastCall' = [op |-> "rafLoop", out |-> out, threw |-> d.threw,
                           ready |-> ready,
                           detectForVideo |-> d.detectForVideo,
                           detector |-> faceLandmarker]
    /\ UNCHANGED <<retargetVars, avatar, url, pendingLoads, assets, children, gltf,
                   root, morphTargetMeshes, unculled, pc, delegate, info, error,
                   video, scene, faceOverlay, faceLandmarker, camera, hasRVFC, program,
                   thrown, warned>>

(***************************************************************************)
(* The page: runDemo() is called once (line 384); the browser then         *)
(* delivers promise results, loader callbacks and frame callbacks.         *)
(***************************************************************************)
(***************************************************************************)
(* detectFaceLandmarks of the second program, lines 571-586.  The guard    *)
(* also tests avatar; the blendshape part (lines 581-585) is outside the   *)
(* matrix branch and uses the retarget of lines 588-604.                   *)
(***************************************************************************)
detectFaceLandmarksLegacy(out) ==
    LET same == [threw |-> FALSE, sceneMatrix |-> sceneMatrix,
                 influences |-> influences, reads |-> {"faceLandmarker"},
                 detectForVideo |-> FALSE]
    IN  IF faceLandmarker = NULL
        THEN same
        ELSE IF video = NULL
        THEN [same EXCEPT !.reads = {"faceLandmarker", "video"}]
        ELSE IF avatar = NULL
        THEN [same EXCEPT !.reads = {"faceLandmarker", "video", "avatar"}]
        ELSE LET called == [same EXCEPT
                               !.reads = {"faceLandmarker", "video", "avatar"},
                               !.detectForVideo = TRUE]
             IN  IF out.throws \/ out.landmarks = None
                 THEN [called EXCEPT !.threw = TRUE]
                 ELSE LET landmarks == The(out.landmarks)
                          tm == landmarks.facialTransformationMatrixes
                          sm == IF tm # None /\ Len(The(tm)) > 0
                                THEN applyMatrix(sceneMatrix, gltf,
                                                 [pose |-> The(tm)[1].data, scale |-> 1],
                                                 [scale |-> 40])
                                ELSE sceneMatrix
                          bs == landmarks.faceBlendshapes
                      IN  IF ~(bs # None /\ Len(The(bs)) > 0)
                          THEN [called EXCEPT !.sceneMatrix = sm]
                          ELSE IF The(bs)[1].categories = None
                          THEN [called EXCEPT !.threw = TRUE, !.sceneMatrix = sm]
                          ELSE [called EXCEPT
                                  !.sceneMatrix = sm,
                                  !.influences =
                                      updateBlendshapes(influences, morphTargetMeshes,
                                                        retargetLegacy(The(bs)), 1)]

(***************************************************************************)
(* onVideoFrame of the second program, lines 606-611.                      *)
(***************************************************************************)
OnVideoFrameLegacy(out) ==
    /\ program = "second"
    /\ frameLoop = "rvfc"
    /\ ~Busy
    /\ LET d == detectFaceLandmarksLegacy(out)
       IN  /\ sceneMatrix' = d.sceneMatrix
           /\ influences' = d.influences
           /\ IF d.threw
              THEN /\ frameLoop' = "none"
                   /\ console' = console \cup {"error: uncaught exception in frame callback"}
                   /\ Touch("frame", d.reads, detectWrites)
              ELSE /\ frameLoop' = IF video # NULL /\ hasRVFC THEN "rvfc" ELSE "none"
                   /\ console' = console
                   /\ Touch("frame", d.reads \cup {"video"}, detectWrites)
           /\ lastCall' = [op |-> "onVideoFrame", out |-> out, threw |-> d.threw,
                           detectForVideo |-> d.detectForVideo,
                           detector |-> faceLandmarker]
    /\ UNCHANGED <<retargetVars, avatar, url, pendingLoads, assets, children, gltf,
                   root, morphTargetMeshes, unculled, pc, delegate, info, error,
                   video, scene, faceOverlay, faceLandmarker, camera, hasRVFC, program,
                   thrown, warned>>

(***************************************************************************)
(* rafLoop of the second program, lines 625-628.                           *)
(***************************************************************************)
RafLoopLegacy(ready, out) ==
    /\ program = "second"
    /\ frameLoop = "raf"
    /\ ~Busy
    /\ LET d == IF ready THEN detectFaceLandmarksLegacy(out)
                ELSE [threw |-> FALSE, sceneMatrix |-> sceneMatrix,
                      influences |-> influences, reads |-> {},
                      detectForVideo |-> FALSE]
       IN  /\ sceneMatrix' = d.sceneMatrix
           /\ influences' = d.influences
           /\ IF d.threw
              THEN /\ frameLoop' = "none"
                   /\ console' = console \cup {"error: uncaught exception in frame callback"}
              ELSE /\ frameLoop' = "raf"
                   /\ console' = console
           /\ Touch("frame", d.reads \cup {"video"}, detectWrites)
           /\ lastCall' = [op |-> "rafLoop", out |-> out, threw |-> d.threw,
                           ready |-> ready,
                           detectForVideo |-> d.detectForVideo,
                           detector |-> faceLandmarker]
    /\ UNCHANGED <<retargetVars, avatar, url, pendingLoads, assets, children, gltf,
                   root, morphTargetMeshes, unculled, pc, delegate, info, error,
                   video, scene, faceOverlay, faceLandmarker, camera, hasRVFC, program,
                   thrown, warned>>

Init ==
    /\ rtIn = <<>>
    /\ rtOut = <<>>
    /\ rtPc = "idle"
    /\ rtAfter = <<>>
    /\ NoAvatar
    /\ NoApp
    /\ hasRVFC \in BOOLEAN
    /\ program \in Programs
    /\ console = {}
    /\ lastCall = [op |-> "none"]

Next ==
    \/ RunDemoStart
    \/ GetUserMediaResolved
    \/ \E e \in CameraFailures : GetUserMediaRejected(e)
    \/ LoadedMetadata
    \/ PlayResolved
    \/ \E e \in CameraFailures : PlayRejected(e)
    \/ RunDemoStart3D
    \/ \E e \in SceneFailures : BasicSceneThrows(e)
    \/ RunDemoLoadFaceModel
    \/ VisionResolved
    \/ \E e \in DownloadFailures : VisionRejected(e)
    \/ CreateResolved
    \/ \E e \in DownloadFailures : CreateRejected(e)
    \/ SetOptionsResolved
    \/ \E e \in DetectorFailures : SetOptionsRejected(e)
    \/ \E out \in DetectOutcomes(faceLandmarker) : OnVideoFrame(out)
    \/ \E ready \in BOOLEAN, out \in DetectOutcomes(faceLandmarker) :
          RafLoop(ready, out)
    \/ \E out \in DetectOutcomes(faceLandmarker) : OnVideoFrameLegacy(out)
    \/ \E ready \in BOOLEAN, out \in DetectOutcomes(faceLandmarker) :
          RafLoopLegacy(ready, out)
    \/ AvatarLoadComplete(1)
    \/ AvatarLoadProgress(1)
    \/ AvatarLoadError(1)

Spec == Init /\ [][Next]_vars

\* the steps that are one frame of the per-frame flow
FrameOps == {"onVideoFrame", "rafLoop"}

(***************************************************************************)
(* C4 as stated: after every invocation of onVideoFrame, whatever the      *)
(* detector returned (absent, empty or malformed output included), the     *)
(* frame raised no failure and a next frame callback is registered.        *)
(* Refuted when detectForVideo returns nothing, or a first face without    *)
(* categories: the TypeError leaves onVideoFrame before line 263.          *)
(***************************************************************************)
C4_LoopKeepsRunning ==
    (lastCall.op = "onVideoFrame" /\ ~lastCall.out.throws) =>
        (~lastCall.threw /\ frameLoop = "rvfc")

(***************************************************************************)
(* The text each failure of the startup sequence must end in, by the       *)
(* priority permission-denied, device-not-found, network-error, other.     *)
(***************************************************************************)
ExpectedText(e) ==
    CASE e = ErrorObject(MsgPermissionDenied) -> TextCameraDenied
      [] e = ThrownString(MsgNotAllowed) -> TextCameraDenied
      [] e = ErrorObject(MsgDeniedNotFound) -> TextCameraDenied
      [] e = ErrorObject(MsgNotFoundError) -> TextNoCamera
      [] e = ErrorObject(MsgNotFoundFetch) -> TextNoCamera
      [] e = ErrorObject(MsgFailedToFetch) -> TextNetworkError
      [] e = ErrorObject(MsgBoom) -> StrErrorPrefix \o MsgBoom
      [] e = ErrorObject(<<>>) -> StrErrorPrefix \o StrErrorName

\* a failure was raised during startup: one that reached the top-level
\* catch, one of the GPU iteration, or one of the avatar asset load
FailureRaised ==
    thrown # None \/ warned # None \/ "error: model load" \in console

(***************************************************************************)
(* C5 as stated: every failure raised during startup (camera, model or     *)
(* asset load, detector initialization) ends at the top-level catch with   *)
(* the error field set and the info field cleared.  Refuted by a failed    *)
(* avatar asset load, which line 123 only logs, and by a failed GPU        *)
(* iteration, which line 364 only warns about.                             *)
(***************************************************************************)
C5_EveryFailureShown ==
    FailureRaised => (pc = "failed" /\ error # <<>> /\ info = "")

(***************************************************************************)
(* C5 amended: every failure that leaves the try block of runDemo (camera  *)
(* stream, BasicScene, fileset download, detector creation or setOptions   *)
(* on the CPU delegate) is caught once, classified in the order            *)
(* permission-denied, device-not-found, network-error, other, and leaves   *)
(* the error field at that one text and the info field empty, for good;    *)
(* while no such failure happened the error field stays empty (a failed    *)
(* avatar asset load or GPU iteration does not reach it).                  *)
(***************************************************************************)
C5_CaughtFailureShown ==
    /\ [](/\ (pc = "failed") <=> (thrown # None)
          /\ pc = "failed" => (info = "" /\ error = ExpectedText(The(thrown)))
          /\ pc # "failed" => error = <<>>)
    /\ [][pc = "failed" =>
             (pc' = "failed" /\ error' = error /\ info' = info
              /\ thrown' = thrown /\ camera' = camera /\ delegate' = delegate)]_vars

C5_Witness ==
    /\ pc = "failed"
    /\ thrown = Some(ErrorObject(MsgDeniedNotFound))
    /\ error = TextCameraDenied
    /\ info = ""

(***************************************************************************)
(* C6: the CPU delegate is tried only after the GPU iteration failed; a    *)
(* failed GPU iteration shows no error and goes on with CPU; when startup  *)
(* is done after that, the status is Ready and the error field is empty;   *)
(* a failed CPU iteration shows the text of its own failure.               *)
(***************************************************************************)
IterationRejections == {"createFromModelPath rejected", "setOptions rejected"}

C6_GpuThenCpu ==
    /\ delegate = "CPU" => warned # None
    /\ pc = "done" => (info = InfoReady /\ error = <<>> /\ faceLandmarker = "ready")
    /\ (lastCall.op \in IterationRejections /\ lastCall.delegate = "GPU") =>
          (pc = "awaitCreate" /\ delegate = "CPU" /\ error = <<>>
           /\ warned = Some(lastCall.e) /\ thrown = None)
    /\ (lastCall.op \in IterationRejections /\ lastCall.delegate = "CPU") =>
          (pc = "failed" /\ error = ExpectedText(lastCall.e) /\ info = ""
           /\ thrown = Some(lastCall.e))

C6_Witness ==
    /\ pc = "done"
    /\ warned # None
    /\ delegate = "CPU"
    /\ info = InfoReady
    /\ error = <<>>

(***************************************************************************)
(* C8: the phase shown in the info field only moves forward, one phase at  *)
(* a time, through not started, requesting camera, camera acquired, model  *)
(* loading, ready; after a startup failure neither runDemo nor the info    *)
(* field moves again.                                                      *)
(***************************************************************************)
PhaseRank(text) ==
    CASE text = "" -> 0
      [] text = InfoRequesting -> 1
      [] text = InfoStarting3D -> 2
      [] text = InfoLoading -> 3
      [] text = InfoReady -> 4

C8_ForwardOnly ==
    [][/\ (pc # "failed" /\ pc' # "failed") =>
              PhaseRank(info') \in {PhaseRank(info), PhaseRank(info) + 1}
       /\ pc = "failed" => (pc' = "failed" /\ info' = info)
       /\ pc = "done" => pc' = "done"]_vars

C8_Witness ==
    /\ pc = "done"
    /\ info = InfoReady
    /\ lastCall.op = "onVideoFrame"
    /\ warned # None

(***************************************************************************)
(* C9 as stated: every module-level handle is touched by one flow only,    *)
(* and frames never run while the startup flow is suspended.  Refuted:     *)
(* the frame flow reads the handles the startup flow writes, and frame     *)
(* callbacks run from PlayResolved on, between the awaits of runDemo.      *)
(***************************************************************************)
C9_OneFlowPerHandle ==
    /\ \A h \in Handles : Cardinality(accessedBy[h]) <= 1
    /\ lastCall.op \in FrameOps => pc \in {"done", "failed"}

(***************************************************************************)
(* C9 amended: every module-level handle is written by the startup flow    *)
(* only; the per-frame flow reads them and never assigns one, and a frame  *)
(* runs to completion without moving the startup flow.                     *)
(***************************************************************************)
C9_StartupWritesFrameReads ==
    /\ [](\A h \in Handles : writtenBy[h] \subseteq {"startup"})
    /\ [][lastCall'.op \in FrameOps =>
             (UNCHANGED <<faceLandmarker, video, avatar, faceOverlay, scene>>
              /\ UNCHANGED <<pc, camera, delegate>>
              /\ writtenBy' = writtenBy)]_vars

C9_Witness ==
    /\ lastCall.op \in FrameOps
    /\ pc = "awaitSetOptions"
    /\ accessedBy["faceLandmarker"] = {"startup", "frame"}
    /\ accessedBy["avatar"] = {"startup", "frame"}
    /\ writtenBy["faceLandmarker"] = {"startup"}

(***************************************************************************)
(* C10: a frame whose detector result has no score list (faceBlendshapes   *)
(* absent or empty, or a first face with zero categories) leaves every     *)
(* influence of every mesh as it was.                                      *)
(***************************************************************************)
EmptyScores(out) ==
    /\ ~out.throws
    /\ out.landmarks # None
    /\ LET bs == The(out.landmarks).faceBlendshapes
       IN  \/ bs = None
           \/ Len(The(bs)) = 0
           \/ The(bs)[1].categories = Some(<<>>)

C10_EmptyScoresKeepInfluences ==
    [][(lastCall'.op \in FrameOps /\ EmptyScores(lastCall'.out)) =>
          influences' = influences]_vars

C10_Witness ==
    /\ lastCall.op = "onVideoFrame"
    /\ EmptyScores(lastCall.out)
    /\ The(lastCall.out.landmarks).facialTransformationMatrixes # None
    /\ Len(The(The(lastCall.out.landmarks).facialTransformationMatrixes)) > 0
    /\ faceLandmarker = "ready"
    /\ gltf # None
    /\ sceneMatrix[1].matrixAutoUpdate = FALSE
    /\ \E o \in DOMAIN influences : \E slot \in DOMAIN influences[o] :
          influences[o][slot] # 0

(***************************************************************************)
(* C11: a call of Avatar.applyMatrix while gltf is null changes nothing of *)
(* the avatar or the scene; with an asset loaded it sets matrixAutoUpdate  *)
(* of that asset's scene to false and its matrix to the pose scaled by the *)
(* scale (1 when no scale is given), and touches nothing else.             *)
(***************************************************************************)
C11_ApplyMatrixBeforeAndAfterLoad ==
    [][lastCall'.op = "applyMatrix" =>
          /\ UNCHANGED <<avatar, url, pendingLoads, assets, children, gltf, root,
                         morphTargetMeshes, influences, unculled, console>>
          /\ IF gltf = None
             THEN sceneMatrix' = sceneMatrix
             ELSE /\ Len(sceneMatrix') = Len(sceneMatrix)
                  /\ \A g \in 1..Len(sceneMatrix) :
                        IF g = The(gltf)
                        THEN /\ sceneMatrix'[g].matrixAutoUpdate = FALSE
                             /\ sceneMatrix'[g].matrix =
                                   [pose |-> lastCall'.pose,
                                    scale |-> IF lastCall'.options = <<>>
                                              THEN 1 ELSE lastCall'.options.scale]
                        ELSE sceneMatrix'[g] = sceneMatrix[g]]_vars

C11_Witness ==
    /\ lastCall.op = "applyMatrix"
    /\ lastCall.options = [scale |-> 40]
    /\ gltf = None
    /\ pendingLoads # <<>>
    /\ sceneMatrix = <<>>
    /\ children.scene = {}

(***************************************************************************)
(* C12: after a call of either retarget, every entry of the argument's     *)
(* score list has the name and the raw score it had before the call.       *)
(* (rtAfter is in hundredths, the argument in tenths.)                     *)
(***************************************************************************)
C12_RetargetLeavesInputAlone ==
    rtPc \in {"returned", "returnedLegacy"} =>
        /\ Len(rtAfter) = Len(RtList)
        /\ \A i \in 1..Len(RtList) :
              /\ rtAfter[i].categoryName = RtList[i].categoryName
              /\ rtAfter[i].score = RtList[i].score * 10

(***************************************************************************)
(* C13: whenever a frame callback calls faceLandmarker.detectForVideo, the *)
(* detector is one whose setOptions has completed successfully: not one    *)
(* between createFromModelPath and the end of setOptions, and not one      *)
(* whose setOptions failed.                                                *)
(***************************************************************************)
C13_DetectOnlyOnConfiguredDetector ==
    (lastCall.op \in FrameOps /\ lastCall.detectForVideo) =>
        lastCall.detector = "ready"
====
